---- MODULE Spec2Model ----
(***************************************************************************)
(* Model of web_app.py: the Flask facade of the map poster generator.      *)
(*                                                                         *)
(* State: the job table `jobs`, one worker thread per accepted submission  *)
(* (its position is pc[id]), the process-wide poster.THEME, and the HTTP   *)
(* response the last step sent, if it sent one.  Text is a sequence of     *)
(* one-character strings, so that strip(), int() and os.path.basename()    *)
(* are computed, not assumed.                                              *)
(* An optional value (Python None or a value) is a sequence of length 0 or *)
(* 1: None is <<>>, the value x is <<x>>.                                  *)
(*                                                                         *)
(* In Spec, each block under `with jobs_lock` (lines 31-39, 141-154,       *)
(* 170-174) is one step: the lock admits one thread at a time and no block *)
(* calls out.  A collaborator call that never ends is a thread that takes  *)
(* no further step, which Spec allows and FairSpec rules out.              *)
(* SpecThreads runs the same code statement by statement, with the lock,   *)
(* the request handlers and the workers as separate threads.               *)
(***************************************************************************)
EXTENDS Integers, Sequences, FiniteSets, TLC

VARIABLES
    jobs,      \* the dict `jobs`: job id -> job record
    pc,        \* per job id: the position of the thread that serves it
    THEME,     \* poster.THEME, the process-wide active theme
    returned,  \* job ids sent back in a {'job_id': ...} response
    req,       \* SpecValidate: the request body submitted; Spec: unused
    resp,      \* the HTTP response the last step sent (NoResp: it sent none)
    lock,      \* jobs_lock: the set of threads inside a `with jobs_lock` block
    upc,       \* per job id: its worker's position inside update_job_status
    hpc,       \* per job id: the frame of the generate() call that made it
    poll,      \* the frame of a get_status() call
    caught     \* per job id: the error_msg its worker's except clause holds

\* the variables that only the statement-by-statement specification moves
threads == <<lock, upc, hpc, poll, caught>>

vars == <<jobs, pc, THEME, returned, req, resp, lock, upc, hpc, poll, caught>>

(***************************************************************************)
(* Bounds of the model.                                                    *)
(***************************************************************************)
MaxJobs == 2

UUIDs == 1 .. MaxJobs        \* the values uuid4() may draw
PollIds == 0 .. MaxJobs      \* ids a client may ask about; 0 is never drawn

(***************************************************************************)
(* Optional values and text.                                               *)
(***************************************************************************)
None == <<>>
Some(x) == <<x>>

RECURSIVE LStrip(_)
LStrip(s) == IF s = <<>> THEN s
             ELSE IF Head(s) = " " THEN LStrip(Tail(s)) ELSE s

RECURSIVE RStrip(_)
RStrip(s) == IF s = <<>> THEN s
             ELSE IF s[Len(s)] = " " THEN RStrip(SubSeq(s, 1, Len(s) - 1)) ELSE s

\* str.strip(): leading and trailing whitespace removed
Strip(s) == RStrip(LStrip(s))

\* os.path.basename(): what follows the last "/" (the whole text if none)
RECURSIVE basename(_)
basename(p) == IF p = <<>> THEN <<>>
               ELSE IF p[Len(p)] = "/" THEN <<>>
               ELSE basename(SubSeq(p, 1, Len(p) - 1)) \o <<p[Len(p)]>>

(***************************************************************************)
(* JSON values of a request body.  t is the type tag, s the text of a      *)
(* string, n the number (an int; a float is held in tenths; a bool as 0/1).*)
(* "absent" is a key the body does not carry.                              *)
(***************************************************************************)
JAbsent == [t |-> "absent", s |-> <<>>, n |-> 0]
JNull == [t |-> "null", s |-> <<>>, n |-> 0]
JList == [t |-> "list", s |-> <<>>, n |-> 0]
JObj == [t |-> "object", s |-> <<>>, n |-> 0]
JStr(s) == [t |-> "str", s |-> s, n |-> 0]
JInt(n) == [t |-> "int", s |-> <<>>, n |-> n]
JFloat(tenths) == [t |-> "float", s |-> <<>>, n |-> tenths]
JBool(b) == [t |-> "bool", s |-> <<>>, n |-> IF b THEN 1 ELSE 0]

\* dict.get(key, default)
Get(v, default) == IF v.t = "absent" THEN default ELSE v

Digits == <<"0", "1", "2", "3", "4", "5", "6", "7", "8", "9">>
IsDigit(c) == \E i \in 1 .. 10 : Digits[i] = c
DigitVal(c) == (CHOOSE i \in 1 .. 10 : Digits[i] = c) - 1

RECURSIVE DecVal(_)
DecVal(s) == IF s = <<>> THEN 0
             ELSE 10 * DecVal(SubSeq(s, 1, Len(s) - 1)) + DigitVal(s[Len(s)])

\* int(text): surrounding whitespace and one sign allowed, then digits only
IntOfStr(s) ==
    LET t == Strip(s)
        signed == t # <<>> /\ Head(t) \in {"+", "-"}
        body == IF signed THEN Tail(t) ELSE t
        good == body # <<>> /\ \A i \in 1 .. Len(body) : IsDigit(body[i])
    IN  IF ~good THEN [ok |-> FALSE, exc |-> "ValueError", v |-> 0]
        ELSE [ok |-> TRUE, exc |-> "",
              v |-> IF signed /\ Head(t) = "-" THEN 0 - DecVal(body) ELSE DecVal(body)]

\* truncation toward zero of a number held in tenths
Trunc(tenths) == IF tenths >= 0 THEN tenths \div 10 ELSE 0 - ((0 - tenths) \div 10)

\* int(distance), line 133: the value, or the exception it raises
IntOf(v) ==
    CASE v.t = "int" -> [ok |-> TRUE, exc |-> "", v |-> v.n]
      [] v.t = "bool" -> [ok |-> TRUE, exc |-> "", v |-> v.n]
      [] v.t = "float" -> [ok |-> TRUE, exc |-> "", v |-> Trunc(v.n)]
      [] v.t = "str" -> IntOfStr(v.s)
      [] OTHER -> [ok |-> FALSE, exc |-> "TypeError", v |-> 0]

(***************************************************************************)
(* The collaborator module create_map_poster (imported as poster).         *)
(***************************************************************************)
FeatureBased == <<"f">>      \* the theme id 'feature_based'
Noir == <<"n">>              \* a second theme definition file

\* poster.get_available_themes(): the ids of the theme definition files
get_available_themes == {FeatureBased, Noir}

\* poster.generate_output_filename(city, theme): a path in POSTERS_DIR whose
\* file name is built from the place name and the theme id
output_filename(filename_city, theme_name) ==
    <<"p", "/">> \o filename_city \o <<"_">> \o theme_name

\* str(e) of the exceptions a collaborator call may raise: Exception() has
\* the empty text, Exception('e') the text 'e'
ErrTexts == {<<>>, <<"e">>}

\* how a collaborator call ends: it returns, or raises with text m
Outcomes == {[raised |-> FALSE, msg |-> <<>>]}
            \cup {[raised |-> TRUE, msg |-> m] : m \in ErrTexts}

(***************************************************************************)
(* generate(), lines 113-137: the validation of a request body r, a record *)
(* of JSON values city, country, theme, distance, display_name.            *)
(***************************************************************************)
DefaultDistance == 10000
MinDistance == 1000
MaxDistance == 50000

NoParams == [city |-> <<>>, country |-> <<>>, theme |-> <<>>, distance |-> 0,
             display_name |-> None]

Reject(code, error, theme) ==
    [kind |-> "reject", code |-> code, error |-> error, theme |-> theme,
     params |-> NoParams]

\* an exception no handler catches: Flask answers 500
Unhandled(exc) == Reject(500, exc, JAbsent)

Accept(params) ==
    [kind |-> "accept", code |-> 200, error |-> "", theme |-> JAbsent,
     params |-> params]

\* variant: the range check excludes its two ends
validate_distance_strict(distance, params) ==
    LET d == IntOf(distance)
    IN  IF ~d.ok
        THEN IF d.exc = "ValueError"
             THEN Reject(400, "Invalid distance value", JAbsent)
             ELSE Unhandled(d.exc)
        ELSE IF d.v <= MinDistance \/ d.v >= MaxDistance
             THEN Reject(400, "Distance must be between 1000 and 50000 meters", JAbsent)
             ELSE Accept([params EXCEPT !.distance = d.v])

\* lines 131-137: the distance check, once city, country, theme are settled
validate_distance(distance, params) ==
    LET d == IntOf(distance)
    IN  IF ~d.ok
        THEN IF d.exc = "ValueError"
             THEN Reject(400, "Invalid distance value", JAbsent)
             ELSE Unhandled(d.exc)
        ELSE IF d.v < MinDistance \/ d.v > MaxDistance
             THEN Reject(400, "Distance must be between 1000 and 50000 meters", JAbsent)
             ELSE Accept([params EXCEPT !.distance = d.v])

\* variant: any text passes for a theme id
theme_known_any(theme_name) == theme_name.t = "str"

\* line 128: theme_name in available_themes
theme_known(theme_name) ==
    theme_name.t = "str" /\ theme_name.s \in get_available_themes

\* lines 126-129: the theme check
validate_theme(theme_name, distance, params) ==
    IF ~theme_known(theme_name)
    THEN Reject(400, "Theme not found", theme_name)
    ELSE validate_distance(distance, [params EXCEPT !.theme = theme_name.s])

\* variant: `and` in place of `or`
required_missing_both(city, country) == city = <<>> /\ country = <<>>

\* line 119: not city or not country
required_missing(city, country) == city = <<>> \/ country = <<>>

\* lines 113-124: the required fields and the defaults
validate(r) ==
    LET cityv == Get(r.city, JStr(<<>>))
        countryv == Get(r.country, JStr(<<>>))
        theme_name == Get(r.theme, JStr(FeatureBased))
        distance == Get(r.distance, JInt(DefaultDistance))
        dispv == Get(r.display_name, JStr(<<>>))
    IN  IF cityv.t # "str" \/ countryv.t # "str"
        THEN Unhandled("AttributeError")
        ELSE IF required_missing(Strip(cityv.s), Strip(countryv.s))
        THEN Reject(400, "City and country are required", JAbsent)
        ELSE IF dispv.t # "str"
        THEN Unhandled("AttributeError")
        ELSE validate_theme(theme_name, distance,
                 [city |-> Strip(cityv.s), country |-> Strip(countryv.s),
                  theme |-> <<>>, distance |-> 0,
                  display_name |-> IF Strip(dispv.s) = <<>> THEN None
                                   ELSE Some(Strip(dispv.s))])

(***************************************************************************)
(* The job table.                                                          *)
(***************************************************************************)
\* lines 142-154: the record of a new job
NewJob(params) ==
    [status |-> "pending", progress |-> 0, result |-> None, error |-> None,
     params |-> params]

\* variant: an id generator that may repeat itself
uuid4_reused(J) == UUIDs

\* line 140: uuid4() draws an id that is no key of the table J
uuid4(J) == UUIDs \ DOMAIN J

\* variant: the update lands on every record of the table
update_job_status_all(J, job_id, status, progress, result, error) ==
    [id \in DOMAIN J |->
        [J[id] EXCEPT !.status = status,
                      !.progress = IF progress # None THEN progress[1] ELSE @,
                      !.result = IF result # None THEN result ELSE @,
                      !.error = IF error # None THEN error ELSE @]]

\* variant: the progress argument is dropped
update_job_status_no_progress(J, job_id, status, progress, result, error) ==
    IF job_id \in DOMAIN J
    THEN [J EXCEPT ![job_id] =
            [@ EXCEPT !.status = status,
                      !.result = IF result # None THEN result ELSE @,
                      !.error = IF error # None THEN error ELSE @]]
    ELSE J

\* variant: the record is replaced by a new one instead of updated in place
update_job_status_replace(J, job_id, status, progress, result, error) ==
    IF job_id \in DOMAIN J
    THEN [J EXCEPT ![job_id] =
            [status |-> status,
             progress |-> IF progress # None THEN progress[1] ELSE @.progress,
             result |-> IF result # None THEN result ELSE @.result,
             error |-> IF error # None THEN error ELSE @.error,
             params |-> NoParams]]
    ELSE J

\* variant: an unknown id gets a record (no membership test)
update_job_status_create(J, job_id, status, progress, result, error) ==
    LET old == IF job_id \in DOMAIN J THEN J[job_id] ELSE NewJob(NoParams)
    IN  (job_id :> [old EXCEPT !.status = status,
                               !.progress = IF progress # None THEN progress[1] ELSE @,
                               !.result = IF result # None THEN result ELSE @,
                               !.error = IF error # None THEN error ELSE @]) @@ J

\* lines 29-39, the body of `with jobs_lock`: the table after the update.
\* progress, result and error are optional arguments (None: leave alone).
update_job_status(J, job_id, status, progress, result, error) ==
    IF job_id \in DOMAIN J
    THEN [J EXCEPT ![job_id] =
            [@ EXCEPT !.status = status,
                      !.progress = IF progress # None THEN progress[1] ELSE @,
                      !.result = IF result # None THEN result ELSE @,
                      !.error = IF error # None THEN error ELSE @]]
    ELSE J

(***************************************************************************)
(* HTTP responses.  job is the snapshot a status query returns; job_id is  *)
(* the id in the body of a generate response, and for a status response    *)
(* the id of the URL it answers.                                           *)
(***************************************************************************)
NoResp == [kind |-> "none", code |-> 0, error |-> "", theme |-> JAbsent,
           job_id |-> 0, job |-> None]

ErrorResp(kind, code, error, theme) ==
    [kind |-> kind, code |-> code, error |-> error, theme |-> theme,
     job_id |-> 0, job |-> None]

NotFoundResp(id) ==
    [kind |-> "status", code |-> 404, error |-> "Job not found", theme |-> JAbsent,
     job_id |-> id, job |-> None]

JobIdResp(id) ==
    [kind |-> "generate", code |-> 200, error |-> "", theme |-> JAbsent,
     job_id |-> id, job |-> None]

SnapshotResp(id, job) ==
    [kind |-> "status", code |-> 200, error |-> "", theme |-> JAbsent,
     job_id |-> id, job |-> Some(job)]

NoRequest == [city |-> JAbsent, country |-> JAbsent, theme |-> JAbsent,
              distance |-> JAbsent, display_name |-> JAbsent]

(***************************************************************************)
(* Threads: the worker of a job, the generate() call that makes a job and  *)
(* a get_status() call.                                                    *)
(***************************************************************************)
Worker(job_id) == <<"run_generation", job_id>>
Submit(job_id) == <<"generate", job_id>>
Poller == <<"get_status", 0>>

\* no generate() call has drawn this id
NoFrame == [at |-> "none", params |-> NoParams]

\* no get_status() call is running
Idle == [at |-> "idle", job_id |-> 0]

\* no thread runs and the lock is free
NoThreads ==
    /\ lock = {}
    /\ upc = [id \in UUIDs |-> "out"]
    /\ hpc = [id \in UUIDs |-> NoFrame]
    /\ poll = Idle
    /\ caught = [id \in UUIDs |-> None]

(***************************************************************************)
(* Initial state: the module has just been imported.                       *)
(***************************************************************************)
Init ==
    /\ jobs = <<>>
    /\ pc = [id \in UUIDs |-> "none"]
    /\ THEME = None
    /\ returned = {}
    /\ req = NoRequest
    /\ resp = NoResp
    /\ NoThreads

(***************************************************************************)
(* POST /api/generate.  Lines 113-154 run as one step: they read and write *)
(* nothing shared before the insertion under jobs_lock.  A rejected        *)
(* request is answered at once; an accepted one has its record inserted    *)
(* and its thread not yet started.                                         *)
(***************************************************************************)
generate(r) ==
    LET v == validate(r)
    IN  IF v.kind = "reject"
        THEN /\ resp' = ErrorResp("generate", v.code, v.error, v.theme)
             /\ UNCHANGED <<jobs, pc, THEME, returned, req, threads>>
        ELSE \E job_id \in uuid4(jobs) :
                /\ jobs' = (job_id :> NewJob(v.params)) @@ jobs
                /\ pc' = [pc EXCEPT ![job_id] = "created"]
                /\ resp' = NoResp
    /\ UNCHANGED <<THEME, returned, req, threads>>

\* variant: the thread is started and the id sent before the record exists
thread_start_early(job_id) ==
    /\ pc[job_id] = "none"
    /\ pc' = [pc EXCEPT ![job_id] = "L49"]
    /\ returned' = returned \cup {job_id}
    /\ resp' = JobIdResp(job_id)
    /\ UNCHANGED <<jobs, THEME, req, threads>>

\* lines 156-164: thread.start() and the response carrying the job id
thread_start(job_id) ==
    /\ pc[job_id] = "created"
    /\ pc' = [pc EXCEPT ![job_id] = "L49"]
    /\ returned' = returned \cup {job_id}
    /\ resp' = JobIdResp(job_id)
    /\ UNCHANGED <<jobs, THEME, req, threads>>

(***************************************************************************)
(* GET /api/status/<job_id>, lines 167-176.                                *)
(***************************************************************************)
status_response(J, job_id) ==
    IF job_id \notin DOMAIN J
    THEN NotFoundResp(job_id)
    ELSE SnapshotResp(job_id, J[job_id])

\* variant: a finished job is dropped from the table once it has been read
get_status_evict(job_id) ==
    /\ resp' = status_response(jobs, job_id)
    /\ jobs' = IF job_id \in DOMAIN jobs /\ jobs[job_id].status \in {"complete", "error"}
               THEN [id \in DOMAIN jobs \ {job_id} |-> jobs[id]]
               ELSE jobs
    /\ UNCHANGED <<pc, THEME, returned, req, threads>>

get_status(job_id) ==
    /\ resp' = status_response(jobs, job_id)
    /\ UNCHANGED <<jobs, pc, THEME, returned, req, threads>>

(***************************************************************************)
(* run_generation(), lines 42-75, on the thread of job_id.  Each step is a *)
(* collaborator call ending (returning or raising) followed by the code up *)
(* to and including the next update of the job table.                      *)
(***************************************************************************)
\* variant: a failed job is dropped from the table
except_clause_cleanup(job_id, error_msg) ==
    /\ jobs' = [id \in DOMAIN jobs \ {job_id} |-> jobs[id]]
    /\ pc' = [pc EXCEPT ![job_id] = "done"]

\* variant: the error update also resets the progress
except_clause_reset(job_id, error_msg) ==
    /\ jobs' = update_job_status(jobs, job_id, "error", Some(0), None, Some(error_msg))
    /\ pc' = [pc EXCEPT ![job_id] = "done"]

\* lines 72-75: the except clause, error_msg = str(e)
except_clause(job_id, error_msg) ==
    /\ jobs' = update_job_status(jobs, job_id, "error", None, None, Some(error_msg))
    /\ pc' = [pc EXCEPT ![job_id] = "done"]

\* line 49
step_geocoding(job_id) ==
    /\ pc[job_id] = "L49"
    /\ jobs' = update_job_status(jobs, job_id, "geocoding", Some(10), None, None)
    /\ pc' = [pc EXCEPT ![job_id] = "L50"]
    /\ resp' = NoResp
    /\ UNCHANGED <<THEME, returned, req, threads>>

\* lines 50-53: poster.get_coordinates ends
step_get_coordinates(job_id) ==
    /\ pc[job_id] = "L50"
    /\ \E o \in Outcomes :
         IF o.raised
         THEN except_clause(job_id, o.msg)
         ELSE /\ jobs' = update_job_status(jobs, job_id, "loading_theme", Some(20), None, None)
              /\ pc' = [pc EXCEPT ![job_id] = "L54"]
    /\ resp' = NoResp
    /\ UNCHANGED <<THEME, returned, req, threads>>

\* variant: the theme is set only while no other job is between its own
\* theme load and the end of its rendering with another theme
step_load_theme_guarded(job_id) ==
    /\ pc[job_id] = "L54"
    /\ \A o \in DOMAIN jobs \ {job_id} :
          pc[o] \in {"L61", "L65"} =>
              jobs[o].params.theme = jobs[job_id].params.theme
    /\ \E o \in Outcomes :
         IF o.raised
         THEN except_clause(job_id, o.msg) /\ UNCHANGED THEME
         ELSE /\ THEME' = Some(jobs[job_id].params.theme)
              /\ jobs' = update_job_status(jobs, job_id, "downloading", Some(30), None, None)
              /\ pc' = [pc EXCEPT ![job_id] = "L61"]
    /\ resp' = NoResp
    /\ UNCHANGED <<returned, req, threads>>

\* lines 54-57: poster.load_theme ends and its value becomes poster.THEME
step_load_theme(job_id) ==
    /\ pc[job_id] = "L54"
    /\ \E o \in Outcomes :
         IF o.raised
         THEN except_clause(job_id, o.msg) /\ UNCHANGED THEME
         ELSE /\ THEME' = Some(jobs[job_id].params.theme)
              /\ jobs' = update_job_status(jobs, job_id, "downloading", Some(30), None, None)
              /\ pc' = [pc EXCEPT ![job_id] = "L61"]
    /\ resp' = NoResp
    /\ UNCHANGED <<returned, req, threads>>

\* lines 60-64: poster.generate_output_filename ends
step_output_filename(job_id) ==
    /\ pc[job_id] = "L61"
    /\ \E o \in Outcomes :
         IF o.raised
         THEN except_clause(job_id, o.msg)
         ELSE /\ jobs' = update_job_status(jobs, job_id, "rendering", Some(50), None, None)
              /\ pc' = [pc EXCEPT ![job_id] = "L65"]
    /\ resp' = NoResp
    /\ UNCHANGED <<THEME, returned, req, threads>>

\* line 60-61: the output path of the job
output_file(params) ==
    output_filename(IF params.display_name # None THEN params.display_name[1]
                    ELSE params.city,
                    params.theme)

\* lines 65-70: poster.create_poster ends
step_create_poster(job_id) ==
    /\ pc[job_id] = "L65"
    /\ \E o \in Outcomes :
         IF o.raised
         THEN except_clause(job_id, o.msg)
         ELSE /\ jobs' = update_job_status(jobs, job_id, "complete", Some(100),
                             Some(basename(output_file(jobs[job_id].params))), None)
              /\ pc' = [pc EXCEPT ![job_id] = "done"]
    /\ resp' = NoResp
    /\ UNCHANGED <<THEME, returned, req, threads>>

run_generation(job_id) ==
    \/ step_geocoding(job_id)
    \/ step_get_coordinates(job_id)
    \/ step_load_theme(job_id)
    \/ step_output_filename(job_id)
    \/ step_create_poster(job_id)

(***************************************************************************)
(* The requests clients send in Spec.                                      *)
(***************************************************************************)
Request(city, country, theme, distance, display_name) ==
    [city |-> city, country |-> country, theme |-> theme,
     distance |-> distance, display_name |-> display_name]

SampleRequests ==
    { Request(JStr(<<" ", "a", " ">>), JStr(<<"a">>), JAbsent, JAbsent, JAbsent),
      Request(JStr(<<"a">>), JStr(<<"a">>), JStr(Noir), JInt(MaxDistance), JStr(<<"b">>)),
      Request(JStr(<<" ">>), JStr(<<"a">>), JAbsent, JAbsent, JAbsent),
      Request(JStr(<<"a">>), JStr(<<"a">>), JStr(<<"z">>), JAbsent, JAbsent),
      Request(JStr(<<"a">>), JStr(<<"a">>), JAbsent, JInt(MinDistance - 1), JAbsent),
      Request(JStr(<<"a">>), JStr(<<"a">>), JAbsent, JNull, JAbsent) }

Next ==
    \/ \E r \in SampleRequests : generate(r)
    \/ \E id \in UUIDs : thread_start(id)
    \/ \E id \in UUIDs : run_generation(id)
    \/ \E id \in PollIds : get_status(id)

Spec == Init /\ [][Next]_vars

\* the threads of the process are scheduled fairly: a started thread whose
\* pending call ends takes its next step
FairSpec ==
    /\ Spec
    /\ \A id \in UUIDs : WF_vars(thread_start(id))
    /\ \A id \in UUIDs : WF_vars(run_generation(id))

(***************************************************************************)
(* SpecValidate: one request body, drawn from every combination of the     *)
(* field values below, is submitted to a process whose table is empty or   *)
(* holds one earlier job.                                                  *)
(***************************************************************************)
CityValues ==
    {JAbsent, JNull, JStr(<<>>), JStr(<<" ">>), JStr(<<"a">>), JStr(<<" ", "a", " ">>)}

CountryValues == {JAbsent, JNull, JStr(<<>>), JStr(<<" ">>), JStr(<<"a">>)}

ThemeValues == {JAbsent, JNull, JList, JStr(Noir), JStr(<<"z">>)}

DistanceValues ==
    {JAbsent, JNull, JList, JObj, JBool(TRUE),
     JInt(500), JInt(MinDistance - 1), JInt(MinDistance), JInt(MaxDistance),
     JInt(MaxDistance + 1), JInt(60000),
     JFloat(10 * MinDistance - 1), JFloat(10 * MaxDistance + 9),
     JStr(<<>>), JStr(<<"a">>), JStr(<<"1", "e", "4">>),
     JStr(<<"9", "9", "9">>), JStr(<<"1", "0", "0", "0">>),
     JStr(<<" ", "5", "0", "0", "0", "0", " ">>)}

DisplayNameValues == {JAbsent, JNull, JStr(<<" ">>), JStr(<<"b">>)}

AllRequests ==
    {Request(c, k, t, d, n) :
        c \in CityValues, k \in CountryValues, t \in ThemeValues,
        d \in DistanceValues, n \in DisplayNameValues}

\* the table a process holds after one earlier accepted submission, its
\* thread started: id 1, the first of SampleRequests
SeedJobs == 1 :> NewJob(validate(Request(JStr(<<" ", "a", " ">>), JStr(<<"a">>),
                                         JAbsent, JAbsent, JAbsent)).params)
SeedPc == [id \in UUIDs |-> IF id = 1 THEN "L49" ELSE "none"]

InitValidate ==
    /\ \/ jobs = <<>> /\ pc = [id \in UUIDs |-> "none"] /\ returned = {}
       \/ jobs = SeedJobs /\ pc = SeedPc /\ returned = {1}
    /\ THEME = None
    /\ req \in AllRequests
    /\ resp = NoResp
    /\ NoThreads

NextValidate ==
    \/ generate(req)
    \/ \E id \in UUIDs : thread_start(id)

SpecValidate == InitValidate /\ [][NextValidate]_vars

(***************************************************************************)
(* SpecThreads: the same code, statement by statement.  A `with jobs_lock` *)
(* block is entered when no thread is inside one; update_job_status        *)
(* writes the status in one step and the other fields in the next;         *)
(* thread.start() and the response of generate() are two steps; a          *)
(* collaborator call ends in a step of its own, or never.                  *)
(***************************************************************************)
\* lines of run_generation that call update_job_status
UpdateLines == {"L49", "L53", "L57", "L64", "L70", "L75"}

\* lines of run_generation that call a collaborator
CallLines == {"L50", "L54", "L61", "L65"}

\* the arguments of the update_job_status call the worker stands at, and the
\* line the worker goes to when the call returns
update_call(job_id) ==
    LET call(status, progress, result, error, then) ==
            [status |-> status, progress |-> progress, result |-> result,
             error |-> error, then |-> then]
    IN  CASE pc[job_id] = "L49" -> call("geocoding", Some(10), None, None, "L50")
          [] pc[job_id] = "L53" -> call("loading_theme", Some(20), None, None, "L54")
          [] pc[job_id] = "L57" -> call("downloading", Some(30), None, None, "L61")
          [] pc[job_id] = "L64" -> call("rendering", Some(50), None, None, "L65")
          [] pc[job_id] = "L70" ->
                call("complete", Some(100),
                     Some(basename(output_file(jobs[job_id].params))), None, "done")
          [] pc[job_id] = "L75" -> call("error", None, None, caught[job_id], "done")

\* line 31: the worker enters the block of update_job_status
update_acquire(job_id) ==
    /\ pc[job_id] \in UpdateLines
    /\ upc[job_id] = "out"
    /\ lock = {}
    /\ lock' = {Worker(job_id)}
    /\ upc' = [upc EXCEPT ![job_id] = "L33"]
    /\ resp' = NoResp
    /\ UNCHANGED <<jobs, pc, THEME, returned, req, hpc, poll, caught>>

\* lines 32-33
update_status(job_id) ==
    /\ upc[job_id] = "L33"
    /\ jobs' = IF job_id \in DOMAIN jobs
               THEN [jobs EXCEPT ![job_id].status = update_call(job_id).status]
               ELSE jobs
    /\ upc' = [upc EXCEPT ![job_id] = "L34"]
    /\ resp' = NoResp
    /\ UNCHANGED <<pc, THEME, returned, req, lock, hpc, poll, caught>>

\* the record after lines 34-39 of the call the worker stands at
update_fields(job_id) ==
    LET c == update_call(job_id)
    IN  IF job_id \in DOMAIN jobs
        THEN [jobs EXCEPT ![job_id] =
                [@ EXCEPT !.progress = IF c.progress # None THEN c.progress[1] ELSE @,
                          !.result = IF c.result # None THEN c.result ELSE @,
                          !.error = IF c.error # None THEN c.error ELSE @]]
        ELSE jobs

\* variant: the worker leaves update_job_status without leaving the block
update_rest_keep_lock(job_id) ==
    /\ upc[job_id] = "L34"
    /\ jobs' = update_fields(job_id)
    /\ upc' = [upc EXCEPT ![job_id] = "out"]
    /\ pc' = [pc EXCEPT ![job_id] = update_call(job_id).then]
    /\ caught' = [caught EXCEPT ![job_id] = None]
    /\ resp' = NoResp
    /\ UNCHANGED <<THEME, returned, req, lock, hpc, poll>>

\* lines 34-39 and the end of the block: progress, result and error are
\* written, the lock is released and the call returns to run_generation
update_rest(job_id) ==
    /\ upc[job_id] = "L34"
    /\ jobs' = update_fields(job_id)
    /\ lock' = lock \ {Worker(job_id)}
    /\ upc' = [upc EXCEPT ![job_id] = "out"]
    /\ pc' = [pc EXCEPT ![job_id] = update_call(job_id).then]
    /\ caught' = [caught EXCEPT ![job_id] = None]
    /\ resp' = NoResp
    /\ UNCHANGED <<THEME, returned, req, hpc, poll>>

\* the ways a collaborator call ends in SpecThreads: it returns, or raises
\* an exception with a text
ThreadOutcomes == {o \in Outcomes : ~o.raised \/ o.msg = <<"e">>}

\* lines 50, 54, 60-61, 65-69: the collaborator call returns; line 54 assigns
\* poster.THEME
call_returns(job_id) ==
    /\ pc[job_id] \in CallLines
    /\ \E o \in ThreadOutcomes : ~o.raised
    /\ pc' = [pc EXCEPT ![job_id] =
                CASE pc[job_id] = "L50" -> "L53"
                  [] pc[job_id] = "L54" -> "L57"
                  [] pc[job_id] = "L61" -> "L64"
                  [] pc[job_id] = "L65" -> "L70"]
    /\ THEME' = IF pc[job_id] = "L54" THEN Some(jobs[job_id].params.theme) ELSE THEME
    /\ resp' = NoResp
    /\ UNCHANGED <<jobs, returned, req, lock, upc, hpc, poll, caught>>

\* variant: a failed call starts the worker over
call_raises_retry(job_id) ==
    /\ pc[job_id] \in CallLines
    /\ \E o \in ThreadOutcomes :
         /\ o.raised
         /\ pc' = [pc EXCEPT ![job_id] = "L49"]
    /\ resp' = NoResp
    /\ UNCHANGED <<jobs, THEME, returned, req, lock, upc, hpc, poll, caught>>

\* lines 72-73: the collaborator call raises, the except clause catches it
\* and takes error_msg = str(e)
call_raises(job_id) ==
    /\ pc[job_id] \in CallLines
    /\ \E o \in ThreadOutcomes :
         /\ o.raised
         /\ caught' = [caught EXCEPT ![job_id] = Some(o.msg)]
    /\ pc' = [pc EXCEPT ![job_id] = "L75"]
    /\ resp' = NoResp
    /\ UNCHANGED <<jobs, THEME, returned, req, lock, upc, hpc, poll>>

\* lines 110-140: validation; an accepted request draws its job id
generate_begin(r) ==
    LET v == validate(r)
    IN  /\ IF v.kind = "reject"
           THEN /\ resp' = ErrorResp("generate", v.code, v.error, v.theme)
                /\ hpc' = hpc
           ELSE /\ \E job_id \in {id \in uuid4(jobs) : hpc[id].at = "none"} :
                      hpc' = [hpc EXCEPT ![job_id] = [at |-> "L141", params |-> v.params]]
                /\ resp' = NoResp
        /\ UNCHANGED <<jobs, pc, THEME, returned, req, lock, upc, poll, caught>>

\* line 141: generate() enters its block
generate_acquire(job_id) ==
    /\ hpc[job_id].at = "L141"
    /\ lock = {}
    /\ lock' = {Submit(job_id)}
    /\ hpc' = [hpc EXCEPT ![job_id].at = "L142"]
    /\ resp' = NoResp
    /\ UNCHANGED <<jobs, pc, THEME, returned, req, upc, poll, caught>>

\* lines 142-154: the insert, and the end of the block
generate_insert(job_id) ==
    /\ hpc[job_id].at = "L142"
    /\ jobs' = (job_id :> NewJob(hpc[job_id].params)) @@ jobs
    /\ pc' = [pc EXCEPT ![job_id] = "created"]
    /\ lock' = lock \ {Submit(job_id)}
    /\ hpc' = [hpc EXCEPT ![job_id] = [at |-> "L157", params |-> NoParams]]
    /\ resp' = NoResp
    /\ UNCHANGED <<THEME, returned, req, upc, poll, caught>>

\* lines 157-162: thread.start()
generate_thread_start(job_id) ==
    /\ hpc[job_id].at = "L157"
    /\ pc' = [pc EXCEPT ![job_id] = "L49"]
    /\ hpc' = [hpc EXCEPT ![job_id].at = "L164"]
    /\ resp' = NoResp
    /\ UNCHANGED <<jobs, THEME, returned, req, lock, upc, poll, caught>>

\* line 164: the response with the job id
generate_return(job_id) ==
    /\ hpc[job_id].at = "L164"
    /\ hpc' = [hpc EXCEPT ![job_id].at = "done"]
    /\ returned' = returned \cup {job_id}
    /\ resp' = JobIdResp(job_id)
    /\ UNCHANGED <<jobs, pc, THEME, req, lock, upc, poll, caught>>

\* line 168: a status request arrives
get_status_begin(job_id) ==
    /\ poll.at = "idle"
    /\ poll' = [at |-> "L170", job_id |-> job_id]
    /\ resp' = NoResp
    /\ UNCHANGED <<jobs, pc, THEME, returned, req, lock, upc, hpc, caught>>

\* variant: the read does not wait for the lock
get_status_acquire_unlocked ==
    /\ poll.at = "L170"
    /\ lock' = lock \cup {Poller}
    /\ poll' = [poll EXCEPT !.at = "L171"]
    /\ resp' = NoResp
    /\ UNCHANGED <<jobs, pc, THEME, returned, req, upc, hpc, caught>>

\* line 170: get_status() enters its block
get_status_acquire ==
    /\ poll.at = "L170"
    /\ lock = {}
    /\ lock' = {Poller}
    /\ poll' = [poll EXCEPT !.at = "L171"]
    /\ resp' = NoResp
    /\ UNCHANGED <<jobs, pc, THEME, returned, req, upc, hpc, caught>>

\* lines 171-176: the membership test, the copy, the end of the block and
\* the response, 404 or the copy
get_status_copy ==
    /\ poll.at = "L171"
    /\ resp' = status_response(jobs, poll.job_id)
    /\ lock' = lock \ {Poller}
    /\ poll' = Idle
    /\ UNCHANGED <<jobs, pc, THEME, returned, req, upc, hpc, caught>>

\* the request SpecThreads submits, as often as there are ids
ThreadRequests ==
    { Request(JStr(<<" ", "a", " ">>), JStr(<<"a">>), JAbsent, JAbsent, JAbsent) }

NextThreads ==
    \/ \E r \in ThreadRequests : generate_begin(r)
    \/ \E id \in UUIDs : generate_acquire(id)
    \/ \E id \in UUIDs : generate_insert(id)
    \/ \E id \in UUIDs : generate_thread_start(id)
    \/ \E id \in UUIDs : generate_return(id)
    \/ \E id \in UUIDs : update_acquire(id)
    \/ \E id \in UUIDs : update_status(id)
    \/ \E id \in UUIDs : update_rest(id)
    \/ \E id \in UUIDs : call_returns(id)
    \/ \E id \in UUIDs : call_raises(id)
    \/ \E id \in PollIds : get_status_begin(id)
    \/ get_status_acquire
    \/ get_status_copy

SpecThreads == Init /\ [][NextThreads]_vars

\* fair scheduling: a thread inside a block takes its next step, a thread
\* at the door of a block enters it if the lock is free again and again, and
\* a handler past its block sends its response.  Nothing makes a
\* collaborator call end.
FairSpecThreads ==
    /\ SpecThreads
    /\ \A id \in UUIDs :
          /\ SF_vars(update_acquire(id))
          /\ WF_vars(update_status(id))
          /\ WF_vars(update_rest(id))
          /\ SF_vars(generate_acquire(id))
          /\ WF_vars(generate_insert(id))
          /\ WF_vars(generate_thread_start(id))
          /\ WF_vars(generate_return(id))
    /\ SF_vars(get_status_acquire)
    /\ WF_vars(get_status_copy)

(***************************************************************************)
(* Vocabulary of the properties.                                           *)
(***************************************************************************)
StatusOrder ==
    <<"pending", "geocoding", "loading_theme", "downloading", "rendering", "complete">>

Rank(s) == CHOOSE i \in 1 .. Len(StatusOrder) : StatusOrder[i] = s

Terminal == {"complete", "error"}

Statuses == {StatusOrder[i] : i \in 1 .. Len(StatusOrder)} \cup {"error"}

\* one move of a status: none, one place forward, or from a running phase to error
StatusStep(s, s2) ==
    \/ s2 = s
    \/ s \notin Terminal /\ (s2 = "error" \/ (s2 # "error" /\ Rank(s2) = Rank(s) + 1))

\* a status query for id, asked now, shows a finished job with its file name
PollSeesComplete(id) ==
    LET r == status_response(jobs, id)
    IN  /\ r.code = 200
        /\ r.job[1].status = "complete"
        /\ r.job[1].progress = 100
        /\ r.job[1].result # None
        /\ r.job[1].result[1] # <<>>

\* a field that is text or left out; one that is empty, blank or left out
TextOrAbsent(v) == v.t \in {"str", "absent"}
IsBlank(v) == v.t = "absent" \/ (v.t = "str" /\ \A i \in 1 .. Len(v.s) : v.s[i] = " ")

\* SpecValidate: the table, the threads and the ids sent are as the
\* submission found them
NoJobNoThread ==
    \/ jobs = <<>> /\ pc = [id \in UUIDs |-> "none"] /\ returned = {}
    \/ jobs = SeedJobs /\ pc = SeedPc /\ returned = {1}

\* ids drawn for an accepted submission
Allocated == {id \in UUIDs : pc[id] # "none"}

\* C1: a job's status moves one place forward along pending, geocoding,
\* loading_theme, downloading, rendering, complete, or from a running phase
\* to error, and never changes once it is complete or error.
C1_StatusMovesForward ==
    [][\A id \in DOMAIN jobs :
          id \in DOMAIN jobs' /\ StatusStep(jobs[id].status, jobs'[id].status)]_vars

C1_Witness ==
    \E a, b \in DOMAIN jobs :
        /\ jobs[a].status = "complete"
        /\ jobs[b].status = "error" /\ jobs[b].progress = 30

\* C2: under fair scheduling a job none of whose collaborator calls raises
\* (so it never takes status error) comes to be seen by a status query as
\* complete with progress 100 and a non-empty result file name, and from then
\* on every query sees the same.
C2_SuccessReachesComplete ==
    /\ \A id \in UUIDs :
          [](id \in DOMAIN jobs =>
                <>(/\ id \in DOMAIN jobs
                   /\ jobs[id].status = "error" \/ PollSeesComplete(id)))
    /\ [][\A id \in UUIDs : PollSeesComplete(id) => PollSeesComplete(id)']_vars

C2_Witness ==
    /\ resp.kind = "status" /\ resp.code = 200
    /\ resp.job[1].status = "complete" /\ resp.job[1].progress = 100
    /\ resp.job[1].result = Some(<<"b", "_", "n">>)

\* C3: a job whose rendering call raised (status error reached from progress
\* 50) carries a non-empty error message and no result, whatever the text of
\* the exception.
C3_RenderErrorHasMessage ==
    \A id \in DOMAIN jobs :
        (jobs[id].status = "error" /\ jobs[id].progress = 50) =>
            /\ jobs[id].error # None /\ jobs[id].error[1] # <<>>
            /\ jobs[id].result = None

\* the cases of distance C4 lists: an integer out of range, a string that
\* is no number, null, a list, an object
C4_BadDistance(d) ==
    \/ d.t = "int" /\ (d.n < 1000 \/ d.n > 50000)
    \/ d.t = "str" /\ ~IntOfStr(d.s).ok
    \/ d.t \in {"null", "list", "object"}

\* C4: a submission (its text fields being text) whose distance is an
\* out-of-range integer or a non-numeric value is answered 400 and creates
\* no job.
C4_BadDistanceIs400 ==
    (/\ TextOrAbsent(req.city) /\ TextOrAbsent(req.country)
     /\ TextOrAbsent(req.display_name)
     /\ C4_BadDistance(req.distance)) =>
        /\ NoJobNoThread
        /\ resp # NoResp => resp.kind = "generate" /\ resp.code = 400

\* the submissions C5 is about: text fields given as text, city and country
\* not blank, a known (or defaulted) theme, an integer distance
C5_Case ==
    /\ TextOrAbsent(req.city) /\ ~IsBlank(req.city)
    /\ TextOrAbsent(req.country) /\ ~IsBlank(req.country)
    /\ TextOrAbsent(req.display_name)
    /\ req.theme = JAbsent \/ (req.theme.t = "str" /\ req.theme.s \in get_available_themes)
    /\ req.distance.t = "int"

\* C5: such a submission is accepted exactly when 1000 <= d <= 50000: in
\* range, every answer is a job id and every job it creates stores d; out of
\* range, every answer is the 400 about the distance and no job is created.
C5_AcceptedIffInRange ==
    C5_Case =>
        LET d == req.distance.n
        IN  IF 1000 <= d /\ d <= 50000
            THEN /\ resp # NoResp =>
                        /\ resp.kind = "generate" /\ resp.code = 200
                        /\ jobs[resp.job_id].params.distance = d
                 /\ \A id \in DOMAIN jobs :
                        pc[id] = "created" => jobs[id].params.distance = d
            ELSE /\ NoJobNoThread
                 /\ resp # NoResp =>
                        /\ resp.kind = "generate" /\ resp.code = 400
                        /\ resp.error = "Distance must be between 1000 and 50000 meters"

C5_Witness ==
    /\ C5_Case /\ req.distance = JInt(50000)
    /\ resp.kind = "generate" /\ resp.code = 200
    /\ jobs[resp.job_id].params.distance = 50000

C7_UnknownThemeIs400 ==
    (/\ TextOrAbsent(req.city) /\ ~IsBlank(req.city)
     /\ TextOrAbsent(req.country) /\ ~IsBlank(req.country)
     /\ TextOrAbsent(req.display_name)
     /\ req.theme # JAbsent
     /\ ~(req.theme.t = "str" /\ req.theme.s \in get_available_themes)) =>
        /\ NoJobNoThread
        /\ resp # NoResp =>
              /\ resp.kind = "generate" /\ resp.code = 400
              /\ resp.error = "Theme not found" /\ resp.theme = req.theme

C7_Witness ==
    /\ req.city = JStr(<<"a">>) /\ req.country = JStr(<<"a">>)
    /\ req.theme = JStr(<<"z">>) /\ req.distance = JNull
    /\ resp.kind = "generate" /\ resp.code = 400 /\ resp.theme = JStr(<<"z">>)

\* C8: the id a successful submission returns was no key of the table when
\* it was drawn and was never returned before; its record is in the table
\* before its thread starts and before the response, so a status query for a
\* returned id answers a snapshot with a status, never 404.
C8_ReturnedIdIsKnown ==
    /\ [](\A id \in UUIDs :
            /\ pc[id] # "none" => id \in DOMAIN jobs
            /\ id \in returned =>
                  /\ status_response(jobs, id).code = 200
                  /\ status_response(jobs, id).job[1].status \in Statuses)
    /\ []((resp.kind = "status" /\ resp.job_id \in returned) => resp.code = 200)
    /\ [][\A id \in UUIDs :
            /\ (pc[id] # "created" /\ pc'[id] = "created") =>
                  id \notin DOMAIN jobs /\ id \notin returned
            /\ (resp'.kind = "generate" /\ resp'.code = 200 /\ resp'.job_id = id) =>
                  /\ id \notin returned
                  /\ id \in DOMAIN jobs /\ jobs[id].status = "pending"]_vars

C8_Witness ==
    /\ resp.kind = "status" /\ resp.code = 200
    /\ resp.job_id \in returned
    /\ resp.job[1].status = "pending"

\* C9 as stated: a status query for an id not returned by a successful
\* submission answers 404.
C9_NotReturnedIs404 ==
    (resp.kind = "status" /\ resp.job_id \notin returned) => resp.code = 404

\* C9 amended: a status query answers 404 exactly for an id no accepted
\* submission has drawn, and changes nothing; records are never removed, so
\* every returned id is a drawn one and is never answered 404.
C9_UnknownIdIs404 ==
    /\ [](resp.kind = "status" =>
            (resp.code = 404 <=> resp.job_id \notin Allocated))
    /\ [](returned \subseteq Allocated)
    /\ [][/\ resp'.kind = "status" => (jobs' = jobs /\ pc' = pc /\ returned' = returned)
          /\ DOMAIN jobs \subseteq DOMAIN jobs']_vars

C9_Witness ==
    /\ resp.kind = "status" /\ resp.code = 404
    /\ resp.job_id \in UUIDs /\ returned # {}

\* C10: no id is returned twice, and a step of one job's worker leaves
\* every other job's record as it was.
C10_JobsIndependent ==
    [][\A id \in UUIDs :
          /\ (resp'.kind = "generate" /\ resp'.code = 200 /\ resp'.job_id = id) =>
                id \notin returned
          /\ run_generation(id) =>
                \A o \in DOMAIN jobs \ {id} :
                    o \in DOMAIN jobs' /\ jobs'[o] = jobs[o]]_vars

C10_Witness ==
    /\ returned = {1, 2}
    /\ pc[1] = "L65" /\ pc[2] = "L50"
    /\ jobs[1].params.theme # jobs[2].params.theme

\* C12: poster.THEME is unprotected.  A job at its theme load is never held
\* back by the other jobs, its load sets THEME to its own theme whatever
\* they are doing, and nothing else writes THEME: so "THEME during a job's
\* rendering is the theme that job asked for" is no invariant (C12_Witness
\* is the state that breaks it).
C12_ThemeUnprotected ==
    /\ [](\A id \in UUIDs : pc[id] = "L54" => ENABLED step_load_theme(id))
    /\ [][/\ \A id \in UUIDs :
               (pc[id] = "L54" /\ pc'[id] = "L61") =>
                   THEME' = Some(jobs[id].params.theme)
          /\ THEME' # THEME =>
               \E id \in UUIDs : pc[id] = "L54" /\ pc'[id] = "L61"]_vars

\* job a is inside create_poster while THEME is the other theme, set by job b
\* after a set its own
C12_Witness ==
    \E a, b \in DOMAIN jobs :
        /\ pc[a] = "L65"
        /\ pc[b] \in {"L61", "L65", "done"}
        /\ jobs[a].params.theme # jobs[b].params.theme
        /\ THEME = Some(jobs[b].params.theme)

\* the progress each status goes with
ProgressOf(s) == <<0, 10, 20, 30, 50, 100>>[Rank(s)]

\* C13: between updates every job's fields agree with its status: progress
\* is 0, 10, 20, 30, 50, 100 for pending .. complete, result is present
\* exactly when the status is complete, error exactly when it is error; and
\* a job's progress never decreases.
C13_FieldsAgreeWithStatus ==
    /\ [](\A id \in DOMAIN jobs :
            /\ jobs[id].status # "error" =>
                  jobs[id].progress = ProgressOf(jobs[id].status)
            /\ jobs[id].result # None <=> jobs[id].status = "complete"
            /\ jobs[id].error # None <=> jobs[id].status = "error")
    /\ [][\A id \in DOMAIN jobs :
            id \in DOMAIN jobs' /\ jobs'[id].progress >= jobs[id].progress]_vars

C13_Witness ==
    \E a, b \in DOMAIN jobs :
        /\ jobs[a].status = "complete" /\ jobs[a].progress = 100
        /\ jobs[b].status = "error" /\ jobs[b].error = Some(<<>>)

\* jobs whose worker thread has been started
Started == {id \in UUIDs : pc[id] \notin {"none", "created"}}

\* jobs whose submission stands between its insert and its thread start
Inserting == {id \in UUIDs : pc[id] = "created"}

\* C16 as stated: in every reachable state as many workers have been started
\* as there are job records.
C16_WorkersEqualRecords ==
    Cardinality(Started) = Cardinality(DOMAIN jobs)

\* C16: each accepted submission starts one worker, once, and a record is
\* written only by its own worker.  Every started worker has its record, and
\* the records without a worker are exactly those of the submissions between
\* their insert and their thread start; a worker is never started a second
\* time; the set of job ids only grows; a record changes only in a step of
\* its own worker, never in a status query or a later submission.
C16_OneWorkerPerRecord ==
    /\ [](/\ Started \cup Inserting = DOMAIN jobs
          /\ returned \subseteq Started)
    /\ [][/\ DOMAIN jobs \subseteq DOMAIN jobs'
          /\ \A id \in UUIDs :
                /\ pc'[id] = "created" => pc[id] \in {"none", "created"}
                /\ pc'[id] = "L49" => pc[id] \in {"created", "L49"}
          /\ \A id \in DOMAIN jobs :
                jobs'[id] # jobs[id] => run_generation(id)]_vars

\* one record whose worker has finished, one whose worker is not started yet
C16_Witness ==
    \E a, b \in DOMAIN jobs :
        /\ pc[a] = "done"
        /\ pc[b] = "created"
        /\ Cardinality(Started) < Cardinality(DOMAIN jobs)

\* C17: a job in status error has the progress of the last phase its worker
\* entered, one of 10, 20, 30, 50, and no result: the step into error
\* leaves progress and result as they were and writes status and error only.
C17_ErrorKeepsProgress ==
    /\ [](\A id \in DOMAIN jobs :
            jobs[id].status = "error" =>
                /\ jobs[id].progress \in {10, 20, 30, 50}
                /\ jobs[id].result = None)
    /\ [][\A id \in DOMAIN jobs :
            (jobs[id].status # "error" /\ jobs'[id].status = "error") =>
                /\ jobs'[id].progress = jobs[id].progress
                /\ jobs'[id].progress = ProgressOf(jobs[id].status)
                /\ jobs'[id].result = jobs[id].result
                /\ jobs'[id].error # jobs[id].error]_vars

C17_Witness ==
    \E a, b \in DOMAIN jobs :
        /\ jobs[a].status = "error" /\ jobs[a].progress = 50
        /\ jobs[b].status = "error" /\ jobs[b].progress = 10

\* C18: a job's params are those of its submission and never change: every
\* step leaves the params of every record as they were, a new record holds
\* the validated params of the request that made it, and every snapshot a
\* status query returns carries the params of the record.
C18_ParamsFixed ==
    /\ [](resp.kind = "status" /\ resp.code = 200 =>
            /\ resp.job_id \in DOMAIN jobs
            /\ resp.job[1].params = jobs[resp.job_id].params)
    /\ [][\A id \in DOMAIN jobs' :
            IF id \in DOMAIN jobs
            THEN jobs'[id].params = jobs[id].params
            ELSE \E r \in SampleRequests :
                    /\ validate(r).kind = "accept"
                    /\ jobs'[id].params = validate(r).params]_vars

\* a snapshot of a finished job still shows the stripped city it was made with
C18_Witness ==
    /\ resp.kind = "status" /\ resp.code = 200
    /\ resp.job[1].status = "complete"
    /\ resp.job[1].params.city = <<"a">>
    /\ resp.job[1].params.theme = FeatureBased

\* C19: update_job_status with an id that is no key of the table returns the
\* table as it is (no record made, none changed); a worker exists only for
\* an id that has a record, records are never removed, and so every update
\* a worker issues changes the status of its record.
C19_UnknownIdNoOp ==
    /\ [](/\ \A id \in PollIds \ DOMAIN jobs, s \in Statuses,
                p \in {None, Some(10), Some(100)},
                r \in {None, Some(<<"x">>)}, e \in {None, Some(<<"e">>)} :
                update_job_status(jobs, id, s, p, r, e) = jobs
          /\ \A id \in UUIDs : pc[id] # "none" => id \in DOMAIN jobs)
    /\ [][\A id \in UUIDs :
            run_generation(id) =>
                /\ id \in DOMAIN jobs /\ id \in DOMAIN jobs'
                /\ jobs'[id].status # jobs[id].status]_vars

\* a worker has updated its record while another id is still unknown
C19_Witness ==
    /\ DOMAIN jobs # {}
    /\ UUIDs \ DOMAIN jobs # {}
    /\ \E id \in DOMAIN jobs : jobs[id].status = "rendering"

\* a record as update_job_status leaves it when it returns
Whole(job) ==
    /\ job.status # "error" => job.progress = ProgressOf(job.status)
    /\ job.status = "error" => job.progress \in {10, 20, 30, 50}
    /\ job.result # None <=> job.status = "complete"
    /\ job.error # None <=> job.status = "error"

\* C11: every snapshot a status query returns is the record as it stood
\* between two whole updates: the copy is taken while no worker is inside
\* update_job_status, the records are whole whenever no worker is inside
\* it, and so no returned snapshot shows a partly applied update.
C11_SnapshotIsWhole ==
    /\ [](/\ (resp.kind = "status" /\ resp.code = 200) => Whole(resp.job[1])
          /\ (\A id \in UUIDs : upc[id] = "out") =>
                \A id \in DOMAIN jobs : Whole(jobs[id]))
    /\ [][(poll.at = "L171" /\ poll'.at = "idle") =>
             /\ \A id \in UUIDs : upc[id] = "out"
             /\ resp' = status_response(jobs, poll.job_id)
             /\ jobs' = jobs]_vars

\* a snapshot has just been returned while the other job's worker stood at
\* the door of an update
C11_Witness ==
    /\ resp.kind = "status" /\ resp.code = 200
    /\ resp.job[1].status = "geocoding" /\ resp.job[1].progress = 10
    /\ \E id \in UUIDs \ {resp.job_id} : pc[id] \in UpdateLines /\ upc[id] = "out"

\* C14: the lock is held only inside one block: by a worker exactly while
\* it is inside update_job_status (never at a collaborator call), by
\* generate() exactly at its insert (never at thread.start() or later), by
\* get_status() exactly at its copy; at most one thread holds it.  Under
\* fair scheduling, with no collaborator call ever assumed to end, a worker
\* at the door of an update enters it, a submission at the door of its
\* insert returns its job id, and every status query returns.
C14_LockOnlyInsideBlocks ==
    /\ [](/\ Cardinality(lock) <= 1
          /\ \A id \in UUIDs :
                /\ Worker(id) \in lock <=> upc[id] # "out"
                /\ upc[id] # "out" => pc[id] \in UpdateLines
                /\ Submit(id) \in lock <=> hpc[id].at = "L142"
          /\ Poller \in lock <=> poll.at = "L171")
    /\ \A id \in UUIDs :
          /\ (pc[id] \in UpdateLines /\ upc[id] = "out") ~> (upc[id] # "out")
          /\ (upc[id] # "out") ~> (upc[id] = "out")
          /\ (hpc[id].at = "L141") ~> (hpc[id].at = "done")
    /\ (poll.at # "idle") ~> (poll.at = "idle")

\* one worker is inside a collaborator call, the other holds the lock, and a
\* status query waits for it
C14_Witness ==
    \E a, b \in UUIDs :
        /\ pc[a] \in CallLines
        /\ upc[b] = "L34" /\ lock = {Worker(b)}
        /\ poll.at = "L170"

\* C15 as stated: when a worker has recorded an error, the submission that
\* made the job has already returned its job id.
C15_ErrorAfterReturn ==
    \A id \in DOMAIN jobs : jobs[id].status = "error" => id \in returned

\* C15: an exception at any collaborator call is caught by the worker and
\* recorded as status error, with its text, on that job only; the worker
\* then ends: its record never changes again and no worker is started for
\* the job a second time.  The submission's response is the job id whether
\* the worker has failed by then or not, and the worker never holds it back.
C15_ExceptionEndsWorker ==
    /\ [](\A id \in UUIDs :
            /\ pc[id] \in CallLines => ENABLED call_raises(id)
            /\ pc[id] = "L75" => caught[id] # None
            /\ hpc[id].at = "L164" => ENABLED generate_return(id))
    /\ [][\A id \in UUIDs :
            /\ call_raises(id) =>
                  pc'[id] = "L75" /\ jobs' = jobs /\ hpc' = hpc /\ returned' = returned
            /\ (pc[id] = "L75" /\ pc'[id] = "done") =>
                  /\ jobs'[id].status = "error"
                  /\ jobs'[id].error = caught[id]
                  /\ \A o \in DOMAIN jobs \ {id} : jobs'[o] = jobs[o]
            /\ pc[id] = "done" => pc'[id] = "done" /\ jobs'[id] = jobs[id]
            /\ pc'[id] = "L49" => pc[id] \in {"created", "L49"}
            /\ (hpc[id].at = "L164" /\ hpc'[id].at = "done") =>
                  resp' = JobIdResp(id)]_vars

\* the worker has recorded its error and ended before the job id was returned
C15_Witness ==
    \E id \in DOMAIN jobs :
        /\ jobs[id].status = "error" /\ jobs[id].error # None
        /\ pc[id] = "done"
        /\ hpc[id].at = "L164"
        /\ id \notin returned

====
